---- MODULE Spec2Model ----
(***************************************************************************)
(* Model of multicolour-seed (src/index.js, the current class at lines     *)
(* 201-511): the NODE_ENV gate, payload generation, the concurrent         *)
(* create-calls joined by Async.parallel, and the association resolver.    *)
(*                                                                         *)
(* Conventions.                                                            *)
(*  - Strings that the code case-converts (NODE_ENV, descriptor types) are *)
(*    tuples of one-character strings, so toLowerCase is computed.         *)
(*  - JavaScript numbers that may exceed 2^31 are two-limb values          *)
(*    [hi, lo] denoting hi * Base + lo with 0 <= lo < Base.                *)
(*  - An absent or falsy property is a has-flag set to FALSE (numbers),    *)
(*    the empty string (model, collection) or the empty tuple (enum).      *)
(***************************************************************************)
EXTENDS Integers, Sequences, FiniteSets, TLC

VARIABLES
  NODE_ENV,         \* process.env.NODE_ENV: [defined, value]
  database,         \* which registry the host's database holds
  iterations,       \* this.iterations
  lastSet,          \* history: the count the host last asked for, -1 if never
  setCalls,         \* history: number of set_iterations calls by the host
  models_payloads,  \* this.models_payloads, in insertion order
  pc,               \* position of the run
  createCalls,      \* create-calls issued so far, in launch order
  pending,          \* tasks whose store callback has not arrived yet
  results,          \* Async.parallel's results array (NoResult where unset)
  failures,         \* history: tasks whose callback carried an error
  resolverRuns,     \* history: invocations of resolve_and_make_associations
  pos,              \* resolver position: index of the next update to issue
  updateCount,      \* number of update-calls issued so far
  lastUpdate,       \* the update-call being made (NoUpdate when none is)
  definition,       \* input of generate_payload_from_definition
  payload,          \* its outcome
  number_attribute, \* input of generate_number
  number_value      \* its outcome

vars == <<NODE_ENV, database, iterations, lastSet, setCalls, models_payloads, pc,
          createCalls, pending, results, failures, resolverRuns, pos,
          updateCount, lastUpdate, definition, payload, number_attribute,
          number_value>>

runVars == <<NODE_ENV, database, iterations, lastSet, setCalls, models_payloads,
             createCalls, pending, results, failures, resolverRuns, pos,
             updateCount, lastUpdate>>

----------------------------------------------------------------------------
(* Bounds *)

MaxIter == 2

MaxSetCalls == 2

MaxAttrs == 2

----------------------------------------------------------------------------
(* Strings as character tuples *)

Upper == <<"A","B","C","D","E","F","G","H","I","J","K","L","M",
           "N","O","P","Q","R","S","T","U","V","W","X","Y","Z">>

Lower == <<"a","b","c","d","e","f","g","h","i","j","k","l","m",
           "n","o","p","q","r","s","t","u","v","w","x","y","z">>

LowerChar(c) ==
  IF \E i \in 1..26 : Upper[i] = c
  THEN Lower[CHOOSE i \in 1..26 : Upper[i] = c]
  ELSE c

toLowerCase(s) == [i \in 1..Len(s) |-> LowerChar(s[i])]

S_development == <<"d","e","v","e","l","o","p","m","e","n","t">>
S_DEVELOPMENT == <<"D","E","V","E","L","O","P","M","E","N","T">>
S_production  == <<"p","r","o","d","u","c","t","i","o","n">>
S_develop     == <<"d","e","v","e","l","o","p">>

T_string   == <<"s","t","r","i","n","g">>
T_String   == <<"S","t","r","i","n","g">>
T_email    == <<"e","m","a","i","l">>
T_integer  == <<"i","n","t","e","g","e","r">>
T_INTEGER  == <<"I","N","T","E","G","E","R">>
T_float    == <<"f","l","o","a","t">>
T_Float    == <<"F","l","o","a","t">>
T_date     == <<"d","a","t","e">>
T_time     == <<"t","i","m","e">>
T_datetime == <<"d","a","t","e","t","i","m","e">>
T_boolean  == <<"b","o","o","l","e","a","n">>
T_json     == <<"j","s","o","n">>
T_smallint == <<"s","m","a","l","l","i","n","t">>
T_bigint   == <<"b","i","g","i","n","t">>
T_serial   == <<"s","e","r","i","a","l">>
T_decimal  == <<"d","e","c","i","m","a","l">>

----------------------------------------------------------------------------
(* Two-limb integers *)

Base == 2^27

Big(h, l) == [hi |-> h, lo |-> l]

Small(n) == Big(0, n)

Neg(a) == IF a.lo = 0 THEN Big(0 - a.hi, 0) ELSE Big(0 - a.hi - 1, Base - a.lo)

Succ(a) == IF a.lo = Base - 1 THEN Big(a.hi + 1, 0) ELSE Big(a.hi, a.lo + 1)

LE(a, b) == a.hi < b.hi \/ (a.hi = b.hi /\ a.lo <= b.lo)

\* Number.MAX_SAFE_INTEGER = 2^53 - 1 = (2^26 - 1) * 2^27 + (2^27 - 1)
MAX_SAFE_INTEGER == Big(2^26 - 1, 2^27 - 1)

Zero == Small(0)

----------------------------------------------------------------------------
(* Attribute descriptors *)

\* An object descriptor with no property set.
Desc ==
  [bare |-> FALSE, str |-> <<>>,
   hasType |-> FALSE, type |-> <<>>,
   model |-> "", collection |-> "",
   primaryKey |-> FALSE,
   hasSize |-> FALSE, size |-> 0,
   hasMin |-> FALSE, min |-> Zero,
   hasMax |-> FALSE, max |-> Zero,
   float |-> FALSE,
   enum |-> <<>>,
   email |-> FALSE, url |-> FALSE, urlish |-> FALSE,
   hasMinLength |-> FALSE, minLength |-> 0,
   hasMaxLength |-> FALSE, maxLength |-> 0,
   hasBefore |-> FALSE, hasAfter |-> FALSE]

\* {type: t}
Typed(t) == [Desc EXCEPT !.hasType = TRUE, !.type = t]

\* The shorthand: the descriptor is the type name itself, a string.
Bare(t) == [Desc EXCEPT !.bare = TRUE, !.str = t]

\* {model: m} and {collection: c}
ToOne(m) == [Desc EXCEPT !.model = m]

ToMany(c) == [Desc EXCEPT !.collection = c]

Attr(n, d) == [name |-> n, desc |-> d]

----------------------------------------------------------------------------
(* Generated values: one record shape for every domain *)

Value == [kind |-> "", n |-> Zero, b |-> FALSE, s |-> "", s2 |-> "", len |-> 0]

NumberValue(v, real) == [Value EXCEPT !.kind = "number", !.n = v, !.b = real]

BoolValue(v) == [Value EXCEPT !.kind = "boolean", !.b = v]

DateValue(lower, upper) == [Value EXCEPT !.kind = "date", !.s = lower, !.s2 = upper]

EnumValue(v) == [Value EXCEPT !.kind = "string", !.s = v]

\* A generated string, by its shape and length (the characters are random).
StringValue(shape, l) == [Value EXCEPT !.kind = "string", !.s = shape, !.len = l]

\* Random.pick(engine, array): any element of the array.
Pick(array) == {array[i] : i \in 1..Len(array)}

\* Values a uniform draw from [min, max] is observed at: both ends and the
\* fixed probes that lie inside.
Probes ==
  {Zero, Small(1), Neg(Small(1)), Small(18), Small(65),
   Small(32767), Small(32768), Neg(Small(32768)),
   Big(15, Base - 1), Big(16, 0), Neg(Big(16, 0)),
   MAX_SAFE_INTEGER, Neg(MAX_SAFE_INTEGER), Succ(MAX_SAFE_INTEGER)}

Between(min, max) == {v \in Probes \cup {min, max} : LE(min, v) /\ LE(v, max)}

----------------------------------------------------------------------------
(* Value generators *)

\* attribute.type as generate_number and generate_string read it: without
\* lower-casing, undefined when the descriptor has no such property.
TypeIs(attribute, t) == ~attribute.bare /\ attribute.hasType /\ attribute.type = t

generate_number_off_by_one(attribute) ==
  LET min == IF attribute.hasMin THEN attribute.min ELSE Neg(MAX_SAFE_INTEGER)
      max == IF attribute.hasMax THEN attribute.max ELSE Succ(MAX_SAFE_INTEGER)
      real == TypeIs(attribute, T_float) \/ attribute.float
  IN  {NumberValue(v, real) : v \in Between(min, max)}

generate_number(attribute) ==
  LET min == IF attribute.hasMin THEN attribute.min ELSE Neg(MAX_SAFE_INTEGER)
      max == IF attribute.hasMax THEN attribute.max ELSE MAX_SAFE_INTEGER
      real == TypeIs(attribute, T_float) \/ attribute.float
  IN  \* Random.real(min, max) or Random.integer(min, max)
      {NumberValue(v, real) : v \in Between(min, max)}

generate_date(attribute) ==
  {DateValue(IF attribute.hasBefore THEN "before()" ELSE "default_before",
             IF attribute.hasAfter THEN "after()" ELSE "default_after")}

generate_string(attribute) ==
  LET min == IF attribute.hasMinLength THEN attribute.minLength ELSE 50
      max == IF attribute.hasMaxLength THEN attribute.maxLength ELSE 255
      \* length of short_random_string once k of its characters, being _ or -,
      \* have been stripped
      short == {min - k : k \in 0..min}
  IN  IF attribute.enum # <<>>
      THEN {EnumValue(v) : v \in Pick(attribute.enum)}
      ELSE IF TypeIs(attribute, T_email) \/ attribute.email
      THEN {StringValue("email", l + 1 + l + 4) : l \in short}
      ELSE IF attribute.url
      THEN {StringValue("url", 7 + l + 4) : l \in short}
      ELSE IF attribute.urlish
      THEN {StringValue("urlish", 1 + min)}
      ELSE {StringValue("plain", max)}

----------------------------------------------------------------------------
(* Payload builder *)

EmptyPayload == [k \in {} |-> Value]

Put(p, k, v) == [x \in DOMAIN p \cup {k} |-> IF x = k THEN v ELSE p[x]]

\* The guard at the head of the forEach body: associations and identifiers.
IsSkippedNoIdCheck(attribute_name, d) ==
  d.model # "" \/ d.collection # ""

IsSkipped(attribute_name, d) ==
  \/ d.model # ""
  \/ d.collection # ""
  \/ attribute_name = "id"
  \/ attribute_name = "_id"

\* definition[attribute_name].type.toLowerCase() throws a TypeError when the
\* descriptor has no type property: a bare string has none.
TypeThrows(d) == d.bare \/ ~d.hasType

\* The switch: the values the attribute may be given; none leaves it unset.
Dispatch(d) ==
  LET t == toLowerCase(d.type)
  IN  IF t \in {T_email, T_string} THEN generate_string(d)
      ELSE IF t \in {T_integer, T_float}
      THEN IF d.primaryKey THEN {} ELSE generate_number(d)
      ELSE IF t \in {T_date, T_time, T_datetime} THEN generate_date(d)
      ELSE IF t = T_boolean THEN {BoolValue(TRUE), BoolValue(FALSE)}
      ELSE {}

Returned(p) == [threw |-> FALSE, payload |-> p]

Thrown == [threw |-> TRUE, payload |-> EmptyPayload]

RECURSIVE PayloadsFrom(_, _, _)
PayloadsFrom(def, i, acc) ==
  IF i > Len(def) THEN {Returned(acc)}
  ELSE LET attribute_name == def[i].name
           d == def[i].desc
       IN  IF IsSkipped(attribute_name, d) THEN PayloadsFrom(def, i + 1, acc)
           ELSE IF TypeThrows(d) THEN {Thrown}
           ELSE IF Dispatch(d) = {} THEN PayloadsFrom(def, i + 1, acc)
           ELSE UNION {PayloadsFrom(def, i + 1, Put(acc, attribute_name, v)) :
                         v \in Dispatch(d)}

\* Every outcome of one call: a returned payload, or a thrown TypeError.
generate_payload_from_definition(def) == PayloadsFrom(def, 1, EmptyPayload)

----------------------------------------------------------------------------
(* The host: environment flag, registry, iteration count *)

Env(v) == [defined |-> TRUE, value |-> v]

Unset == [defined |-> FALSE, value |-> <<>>]

Envs == {Unset, Env(<<>>), Env(S_development), Env(S_DEVELOPMENT),
         Env(S_production), Env(S_develop)}

Model(n, junction, attrs) ==
  [name |-> n, junctionTable |-> junction, attributes |-> attrs]

Id == Attr("id", [Typed(T_integer) EXCEPT !.primaryKey = TRUE])

M_user ==
  Model("user", FALSE,
        <<Id, Attr("name", Typed(T_String)), Attr("joined", Typed(T_datetime))>>)

M_pet ==
  Model("pet", FALSE,
        <<Id, Attr("owner", ToOne("user")),
          Attr("name", [Typed(T_string) EXCEPT !.hasMaxLength = TRUE, !.maxLength = 8])>>)

M_badge == Model("badge", FALSE, <<Id>>)

M_group == Model("group", FALSE, <<Id, Attr("awards", ToMany("badge"))>>)

M_tag ==
  Model("tag", FALSE,
        <<Attr("user", ToOne("user")), Attr("label", Typed(T_json))>>)

M_note == Model("note", FALSE, <<Id, Attr("body", Bare(T_string))>>)

M_user_friends ==
  Model("user_friends", TRUE,
        <<Id, Attr("user_a", ToOne("user")), Attr("user_b", ToOne("user"))>>)

\* Registries the host may hold. Every model or collection an attribute names
\* is registered and is no junction table, as the ORM requires.
Registries ==
  <<<<M_user>>,
    <<M_user, M_pet>>,
    <<M_pet, M_user>>,
    <<M_user_friends, M_user>>,
    <<M_user, M_user_friends, M_pet>>,
    <<M_pet, M_tag, M_user, M_user_friends>>,
    <<M_group, M_badge>>,
    <<M_tag, M_user>>,
    <<M_user, M_note>>,
    <<M_note>>>>

\* multicolour.get("database").get("models"), in Object.keys order
models == Registries[database]

DefaultIterations == 20

DigitChars == <<"0","1","2","3","4","5","6","7","8","9">>

RECURSIVE ToDigits(_)
ToDigits(n) ==
  IF n < 10 THEN <<DigitChars[n + 1]>>
  ELSE Append(ToDigits(n \div 10), DigitChars[(n % 10) + 1])

DigitValue(c) == (CHOOSE i \in 1..10 : DigitChars[i] = c) - 1

RECURSIVE ParseDigits(_)
ParseDigits(s) ==
  IF s = <<>> THEN 0
  ELSE 10 * ParseDigits(SubSeq(s, 1, Len(s) - 1)) + DigitValue(s[Len(s)])

\* What the host passes to set_iterations for a count n: the number itself or
\* its decimal string.
Passed(n, rep) ==
  IF rep = "number" THEN [isString |-> FALSE, num |-> n, str |-> <<>>]
  ELSE [isString |-> TRUE, num |-> 0, str |-> ToDigits(n)]

\* Number(iterations)
Number(x) == IF x.isString THEN ParseDigits(x.str) ELSE x.num

----------------------------------------------------------------------------
(* register: the server_starting handler *)

InDevelopmentWhenSet(env) == env.defined /\ env.value # <<>>

\* The negation of the guard
\*   !process.env.NODE_ENV || process.env.NODE_ENV.toLowerCase() !== "development"
InDevelopment(env) ==
  /\ env.defined
  /\ env.value # <<>>
  /\ toLowerCase(env.value) = S_development

----------------------------------------------------------------------------
(* get_models_and_seed *)

IsJunctionTableNever(model) == FALSE

\* model.meta.junctionTable
IsJunctionTable(model) == model.junctionTable

LoopCountInclusive(n) == IF n >= 0 THEN n + 1 ELSE 0

\* Passes of: for (let i = 0; i < this.iterations; i++)
LoopCount(n) == IF n > 0 THEN n ELSE 0

\* The batches the loop may build for one model, when no call throws.
Batches(model, n) ==
  [1..LoopCount(n) ->
     {o.payload : o \in {r \in generate_payload_from_definition(model.attributes) :
                            ~r.threw}}]

\* A call for this model throws, which ends the whole handler.
BatchThrows(model, n) ==
  /\ LoopCount(n) > 0
  /\ Thrown \in generate_payload_from_definition(model.attributes)

\* The forEach over Object.keys(models): every way it can end, as
\* [threw, models_payloads], models_payloads in insertion order.
RECURSIVE SeedFrom(_, _, _, _)
SeedFrom(ms, n, i, acc) ==
  IF i > Len(ms) THEN {[threw |-> FALSE, models_payloads |-> acc]}
  ELSE IF IsJunctionTable(ms[i]) THEN SeedFrom(ms, n, i + 1, acc)
  ELSE IF BatchThrows(ms[i], n) THEN {[threw |-> TRUE, models_payloads |-> acc]}
  ELSE UNION {SeedFrom(ms, n, i + 1,
                       Append(acc, [model_name |-> ms[i].name, payloads |-> b])) :
                b \in Batches(ms[i], n)}

\* models[model_name].create(this.models_payloads[model_name], cb): the calls
\* Async.parallel starts, one per key of models_payloads, all before it
\* returns. A call is named by its model; its batch is that very array.
Tasks(mp) == [i \in 1..Len(mp) |-> mp[i].model_name]

\* this.models_payloads[model_name]
BatchOf(mp, model_name) ==
  mp[CHOOSE i \in 1..Len(mp) : mp[i].model_name = model_name].payloads

\* The records the store hands to the callback of task i, one per payload,
\* each with an identifier no other record of the run has. Of a record the
\* code reads the identifier only.
RECURSIVE RecordsBefore(_, _)
RecordsBefore(mp, i) ==
  IF i = 1 THEN 0 ELSE RecordsBefore(mp, i - 1) + Len(mp[i - 1].payloads)

CreatedBy(mp, i) ==
  [k \in 1..Len(mp[i].payloads) |-> [id |-> RecordsBefore(mp, i) + k]]

\* Async.parallel calls back once every task has called back without error.
JoinedEarly(pend) == TRUE

Joined(pend) == pend = {}

\* The test on err in the callback given to Async.parallel.
FailedIgnored(err) == FALSE

Failed(err) == err

----------------------------------------------------------------------------
(* resolve_and_make_associations *)

NoResult == [model_name |-> "", created |-> <<>>]

\* mapped_created.get(model_name), over the array Async.parallel collected.
\* A model without an entry has no records to loop over.
Created(res, model_name) ==
  IF \E i \in 1..Len(res) : res[i].model_name = model_name
  THEN res[CHOOSE i \in 1..Len(res) : res[i].model_name = model_name].created
  ELSE <<>>

IsRelation(a) == a.desc.model # "" \/ a.desc.collection # ""

RECURSIVE Flatten(_)
Flatten(ss) == IF ss = <<>> THEN <<>> ELSE Head(ss) \o Flatten(Tail(ss))

\* The update-calls of one created record: one per relation attribute.
RecordSites(model, created_model) ==
  LET rel == SelectSeq(model.attributes, IsRelation)
  IN  [j \in 1..Len(rel) |->
         [model_name |-> model.name, id |-> created_model.id,
          attribute_name |-> rel[j].name, attribute |-> rel[j].desc]]

ModelSites(res, model) ==
  LET created == Created(res, model.name)
  IN  Flatten([k \in 1..Len(created) |-> RecordSites(model, created[k])])

\* Every update-call the three nested loops make, in their order.
UpdateSites(ms, res) ==
  Flatten([i \in 1..Len(ms) |->
             IF IsJunctionTable(ms[i]) THEN <<>> ELSE ModelSites(res, ms[i])])

NoUpdate ==
  [model_name |-> "", id |-> 0, attribute_name |-> "", target |-> "",
   key |-> "", isList |-> FALSE, ids |-> <<>>]

\* model.update({id: created_model.id}, {[key]: value}, () => {}), with the
\* attribute it was issued for.
Update(site, k, list, v) ==
  [model_name |-> site.model_name, id |-> site.id,
   attribute_name |-> site.attribute_name,
   target |-> IF list THEN site.attribute.collection ELSE site.attribute.model,
   key |-> k, isList |-> list, ids |-> v]

\* The update-calls one pass of the innermost loop may issue.
UpdatesAt(site, res) ==
  IF site.attribute.model # ""
  THEN {Update(site, site.attribute.model, FALSE, <<r.id>>) :
          r \in Pick(Created(res, site.attribute.model))}
  ELSE LET peers == Pick(Created(res, site.attribute.collection))
       IN  {Update(site, site.attribute.collection, TRUE, <<a.id, b.id, c.id>>) :
              a \in peers, b \in peers, c \in peers}

----------------------------------------------------------------------------
(* The seeding run *)

\* The generators' inputs and outcomes, while none is being exercised alone.
Idle ==
  /\ definition = <<>>
  /\ payload = Thrown
  /\ number_attribute = <<>>
  /\ number_value = <<>>

Init ==
  /\ NODE_ENV \in Envs
  /\ database \in 1..Len(Registries)
  /\ iterations = DefaultIterations
  /\ lastSet = -1
  /\ setCalls = 0
  /\ models_payloads = <<>>
  /\ pc = "configuring"
  /\ createCalls = <<>>
  /\ pending = {}
  /\ results = <<>>
  /\ failures = {}
  /\ resolverRuns = 0
  /\ pos = 0
  /\ updateCount = 0
  /\ lastUpdate = NoUpdate
  /\ Idle

\* The host calls request("seeder").set_iterations(n) before the signal.
SetIterations ==
  /\ pc = "configuring"
  /\ setCalls < MaxSetCalls
  /\ \E n \in 0..MaxIter, rep \in {"number", "string"} :
       /\ iterations' = Number(Passed(n, rep))
       /\ lastSet' = n
  /\ setCalls' = setCalls + 1
  /\ UNCHANGED <<NODE_ENV, database, models_payloads, pc, createCalls, pending,
                 results, failures, resolverRuns, pos, updateCount, lastUpdate,
                 definition, payload, number_attribute, number_value>>

\* The callback of Async.parallel, called with (null, created): the resolver
\* is entered; its loops run on in ResolveStep.
EnterResolver(res) ==
  /\ resolverRuns' = resolverRuns + 1
  /\ pos' = 1
  /\ pc' = IF UpdateSites(models, res) = <<>> THEN "done" ELSE "resolving"

\* server_starting fires: the gate, and get_models_and_seed up to the return
\* of Async.parallel.
ServerStarting ==
  /\ pc = "configuring"
  /\ IF ~InDevelopment(NODE_ENV)
     THEN /\ pc' = "skipped"
          /\ UNCHANGED <<models_payloads, createCalls, pending, results,
                         resolverRuns, pos>>
     ELSE \E o \in SeedFrom(models, iterations, 1, models_payloads) :
            /\ models_payloads' = o.models_payloads
            /\ IF o.threw
               THEN /\ pc' = "threw"
                    /\ UNCHANGED <<createCalls, pending, results, resolverRuns, pos>>
               ELSE /\ createCalls' = Tasks(o.models_payloads)
                    /\ pending' = 1..Len(o.models_payloads)
                    /\ results' = [i \in 1..Len(o.models_payloads) |-> NoResult]
                    /\ IF Len(o.models_payloads) = 0
                       THEN EnterResolver(<<>>)
                       ELSE /\ pc' = "seeding"
                            /\ UNCHANGED <<resolverRuns, pos>>
  /\ UNCHANGED <<NODE_ENV, database, iterations, lastSet, setCalls, failures,
                 updateCount, lastUpdate, definition, payload, number_attribute,
                 number_value>>

\* The store calls back for task i, with an error or with the created records.
CreateCallback ==
  /\ pc \in {"seeding", "failed"}
  /\ \E i \in pending, err \in BOOLEAN :
       /\ pending' = pending \ {i}
       /\ failures' = IF err THEN failures \cup {i} ELSE failures
       /\ IF pc = "failed"
          THEN UNCHANGED <<pc, results, resolverRuns, pos>>
          ELSE LET res == [results EXCEPT ![i] =
                             [model_name |-> createCalls[i],
                              created |-> IF err THEN <<>>
                                          ELSE CreatedBy(models_payloads, i)]]
               IN  /\ results' = res
                   /\ IF Failed(err)
                      THEN /\ pc' = "failed"
                           /\ UNCHANGED <<resolverRuns, pos>>
                      ELSE IF Joined(pending \ {i})
                      THEN EnterResolver(res)
                      ELSE UNCHANGED <<pc, resolverRuns, pos>>
  /\ UNCHANGED <<NODE_ENV, database, iterations, lastSet, setCalls, models_payloads,
                 createCalls, updateCount, lastUpdate, definition, payload,
                 number_attribute, number_value>>

\* One pass of the innermost loop of the resolver: model.update is called.
ResolveStep ==
  /\ pc = "resolving"
  /\ LET sites == UpdateSites(models, results)
     IN  /\ pos <= Len(sites)
         /\ lastUpdate' \in UpdatesAt(sites[pos], results)
         /\ pos' = IF pos = Len(sites) THEN 0 ELSE pos + 1
  /\ pc' = "updating"
  /\ updateCount' = updateCount + 1
  /\ UNCHANGED <<NODE_ENV, database, iterations, lastSet, setCalls, models_payloads,
                 createCalls, pending, results, failures, resolverRuns,
                 definition, payload, number_attribute, number_value>>

\* model.update returns, the call being with the store (its callback does
\* nothing), and the loops move on or end.
UpdateReturns ==
  /\ pc = "updating"
  /\ lastUpdate' = NoUpdate
  /\ pc' = IF pos = 0 THEN "done" ELSE "resolving"
  /\ UNCHANGED <<NODE_ENV, database, iterations, lastSet, setCalls, models_payloads,
                 createCalls, pending, results, failures, resolverRuns, pos,
                 updateCount, definition, payload, number_attribute, number_value>>

Next ==
  SetIterations \/ ServerStarting \/ CreateCallback \/ ResolveStep \/ UpdateReturns

Spec == Init /\ [][Next]_vars


----------------------------------------------------------------------------
(* generate_payload_from_definition and generate_number on their own *)

RunIdle ==
  /\ NODE_ENV = Unset
  /\ database = 1
  /\ iterations = DefaultIterations
  /\ lastSet = -1
  /\ setCalls = 0
  /\ models_payloads = <<>>
  /\ createCalls = <<>>
  /\ pending = {}
  /\ results = <<>>
  /\ failures = {}
  /\ resolverRuns = 0
  /\ pos = 0
  /\ updateCount = 0
  /\ lastUpdate = NoUpdate

AttributeNames == {"id", "_id", "name", "owner"}

Descriptors ==
  {Typed(T_String),
   [Typed(T_email) EXCEPT !.hasMinLength = TRUE, !.minLength = 1],
   [Typed(T_INTEGER) EXCEPT !.primaryKey = TRUE],
   [Typed(T_integer) EXCEPT !.hasMin = TRUE, !.min = Small(18),
                            !.hasMax = TRUE, !.max = Small(65)],
   [Typed(T_string) EXCEPT !.primaryKey = TRUE, !.enum = <<"a", "b">>],
   Typed(T_boolean),
   Typed(T_date),
   Typed(T_json),
   ToOne("user"),
   [Typed(T_string) EXCEPT !.collection = "user"],
   Bare(T_string)}

\* Attribute-definition mappings of up to MaxAttrs attributes, in key order.
Definitions ==
  {def \in UNION {[1..n -> {Attr(a, d) : a \in AttributeNames, d \in Descriptors}] :
                    n \in 1..MaxAttrs} :
     \A i, j \in 1..Len(def) : i # j => def[i].name # def[j].name}

InitPayload ==
  /\ definition \in Definitions
  /\ payload = Thrown
  /\ pc = "ready"
  /\ number_attribute = <<>>
  /\ number_value = <<>>
  /\ RunIdle

GeneratePayload ==
  /\ pc = "ready"
  /\ payload' \in generate_payload_from_definition(definition)
  /\ pc' = "generated"
  /\ UNCHANGED <<runVars, definition, number_attribute, number_value>>

NextPayload == GeneratePayload

SpecPayload == InitPayload /\ [][NextPayload]_vars

NumberTypes ==
  {T_integer, T_float, T_Float, T_smallint, T_bigint, T_serial, T_decimal}

Sizes == {8, 24, 48}

Minima == {Neg(Small(32768)), Small(18)}

Maxima == {Small(65), Big(16, 0)}

NumberAttributes ==
  {[Desc EXCEPT !.hasType = ht, !.type = IF ht THEN t ELSE <<>>,
                !.hasSize = hs, !.size = IF hs THEN sz ELSE 0,
                !.hasMin = hmin, !.min = IF hmin THEN min ELSE Zero,
                !.hasMax = hmax, !.max = IF hmax THEN max ELSE Zero,
                !.float = f] :
     ht \in BOOLEAN, t \in NumberTypes, hs \in BOOLEAN, sz \in Sizes,
     hmin \in BOOLEAN, min \in Minima, hmax \in BOOLEAN, max \in Maxima,
     f \in BOOLEAN}

InitNumber ==
  /\ number_attribute \in NumberAttributes
  /\ number_value = <<>>
  /\ pc = "ready"
  /\ definition = <<>>
  /\ payload = Thrown
  /\ RunIdle

GenerateNumber ==
  /\ pc = "ready"
  /\ number_value' \in generate_number(number_attribute)
  /\ pc' = "generated"
  /\ UNCHANGED <<runVars, definition, payload, number_attribute>>

NextNumber == GenerateNumber

SpecNumber == InitNumber /\ [][NextNumber]_vars

----------------------------------------------------------------------------
(* Properties *)

Running == pc \in {"seeding", "failed", "resolving", "updating", "done"}

\* The value equals "development" up to the case of each letter.
EqualsDevelopmentIgnoringCase(env) ==
  /\ env.defined
  /\ Len(env.value) = Len(S_development)
  /\ \A i \in 1..Len(S_development) :
       env.value[i] \in {S_development[i], S_DEVELOPMENT[i]}

\* C1: once server_starting has fired with NODE_ENV absent or not equal to
\* "development" up to case, the run is skipped: no payload is built, no
\* create-call and no update-call is issued. A seeding run starts only when
\* NODE_ENV equals "development" up to case.
C1_SeedsOnlyInDevelopment ==
  (pc # "configuring" /\ ~EqualsDevelopmentIgnoringCase(NODE_ENV)) =>
    /\ pc = "skipped"
    /\ models_payloads = <<>>
    /\ createCalls = <<>>
    /\ updateCount = 0
    /\ lastUpdate = NoUpdate

C1_Witness ==
  /\ pc = "skipped"
  /\ NODE_ENV = Env(S_production)
  /\ Len(models) > 1

\* The count the host asked for last, or 20 if it never asked.
RequestedCount == IF lastSet = -1 THEN 20 ELSE lastSet

CallsFor(model_name) == {i \in 1..Len(createCalls) : createCalls[i] = model_name}

\* C2: in a run that reached persistence, every non-junction model of the
\* registry has one create-call, and the batch handed to it holds exactly N
\* payloads, N being the count last passed to set_iterations before the
\* signal, or 20 if set_iterations was never called.
C2_BatchHoldsRequestedCount ==
  Running =>
    \A i \in 1..Len(models) :
      ~models[i].junctionTable =>
        /\ Cardinality(CallsFor(models[i].name)) = 1
        /\ Len(BatchOf(models_payloads, models[i].name)) = RequestedCount

C2_Witness ==
  /\ pc = "seeding"
  /\ setCalls = 2
  /\ lastSet = 2
  /\ Len(createCalls) = 2
  /\ \A i \in 1..2 : Len(models_payloads[i].payloads) = 2

\* C3: a model flagged junctionTable gets no generated payloads, no
\* create-call and no update-call, wherever it stands in the registry.
C3_JunctionTableNeverSeeded ==
  \A i \in 1..Len(models) :
    models[i].junctionTable =>
      /\ \A j \in 1..Len(models_payloads) :
           models_payloads[j].model_name # models[i].name
      /\ CallsFor(models[i].name) = {}
      /\ lastUpdate.model_name # models[i].name

C3_Witness ==
  /\ pc = "updating"
  /\ Len(models) = 3
  /\ models[2].junctionTable
  /\ Len(createCalls) = 2
  /\ lastUpdate.model_name = "pet"

\* C4: once a create-call has completed with an error, the resolver has not
\* been and is not invoked, and no update-call is issued, whichever other
\* create-calls complete, in whatever order, with whatever outcome.
C4_FailureBlocksAssociations ==
  failures # {} =>
    /\ pc = "failed"
    /\ resolverRuns = 0
    /\ updateCount = 0
    /\ lastUpdate = NoUpdate

C4_Witness ==
  /\ pc = "failed"
  /\ pending = {}
  /\ Len(createCalls) = 3
  /\ Cardinality(failures) = 1
  /\ 3 \in failures

IdsOf(created) == {created[k].id : k \in 1..Len(created)}

\* C5: every update-call made for a to-one attribute {model: B} sets that
\* attribute, under its own name, to the identifier of a record created for
\* B in the run.
C5_ToOneSetUnderOwnName ==
  (lastUpdate # NoUpdate /\ ~lastUpdate.isList) =>
    /\ lastUpdate.key = lastUpdate.attribute_name
    /\ Len(lastUpdate.ids) = 1
    /\ lastUpdate.ids[1] \in IdsOf(Created(results, lastUpdate.target))

\* C6: every update-call made for a to-many attribute {collection: B} sets
\* that attribute to a list of exactly 3 identifiers of records created for B
\* in the run.
C6_ToManySetUnderOwnName ==
  (lastUpdate # NoUpdate /\ lastUpdate.isList) =>
    /\ lastUpdate.key = lastUpdate.attribute_name
    /\ Len(lastUpdate.ids) = 3
    /\ \A k \in 1..3 :
         lastUpdate.ids[k] \in IdsOf(Created(results, lastUpdate.target))

\* The descriptor is dispatched to generate_number.
IsNumeric(d) ==
  ~d.bare /\ d.hasType /\ toLowerCase(d.type) \in {T_integer, T_float}

\* C7: a returned payload has no key id or _id, no key whose descriptor
\* carries model or collection, and no numeric attribute whose descriptor has
\* primaryKey true.
C7_NoIdentifierOrRelationKeys ==
  (pc = "generated" /\ ~payload.threw) =>
    \A i \in 1..Len(definition) :
      LET a == definition[i]
      IN  (\/ a.name \in {"id", "_id"}
           \/ a.desc.model # ""
           \/ a.desc.collection # ""
           \/ (IsNumeric(a.desc) /\ a.desc.primaryKey))
          => a.name \notin DOMAIN payload.payload

C7_Witness ==
  /\ pc = "generated"
  /\ ~payload.threw
  /\ Len(definition) = 2
  /\ definition[1].name = "id"
  /\ definition[1].desc = Typed(T_String)
  /\ DOMAIN payload.payload = {"name"}

\* The magnitude the descriptor's size, or else its type, is said to select.
DeclaredMagnitude(d) ==
  IF d.hasSize
  THEN IF d.size < 16 THEN Small(32767)
       ELSE IF d.size <= 32 THEN Big(15, Base - 1)
       ELSE MAX_SAFE_INTEGER
  ELSE IF d.hasType /\ d.type = T_smallint THEN Small(32767)
  ELSE IF d.hasType /\ d.type \in {T_integer, T_serial} THEN Big(15, Base - 1)
  ELSE MAX_SAFE_INTEGER

Unbounded(d) == ~d.hasMin /\ ~d.hasMax

Normalised(def) ==
  [i \in 1..Len(def) |->
     IF def[i].desc.bare THEN Attr(def[i].name, Typed(def[i].desc.str)) ELSE def[i]]

KeysOf(def) == {DOMAIN o.payload : o \in generate_payload_from_definition(def)}

\* C9: a definition with a bare type-name descriptor yields a payload, with
\* the keys the same definition yields when the name is written {type: name}.
C9_BareTypeNameDispatched ==
  (pc = "generated" /\ \E i \in 1..Len(definition) : definition[i].desc.bare) =>
    /\ ~payload.threw
    /\ DOMAIN payload.payload \in KeysOf(Normalised(definition))

\* C10: every create-call is launched before any completes; the resolver
\* runs at most once, and only when every create-call has completed without
\* error; no update-call is made while a create-call is outstanding.
C10_ResolverAfterEveryCreate ==
  /\ resolverRuns <= 1
  /\ (Running /\ Cardinality(pending) < Len(createCalls)) =>
       \A i \in 1..Len(models) :
         ~models[i].junctionTable => CallsFor(models[i].name) # {}
  /\ resolverRuns = 1 =>
       /\ pending = {}
       /\ failures = {}
       /\ \A i \in 1..Len(createCalls) :
            /\ results[i].model_name = createCalls[i]
            /\ Len(results[i].created) = Len(models_payloads[i].payloads)
  /\ (updateCount > 0 \/ lastUpdate # NoUpdate) =>
       /\ resolverRuns = 1
       /\ pending = {}

C10_Witness ==
  /\ pc = "done"
  /\ Len(createCalls) = 3
  /\ updateCount = 4
  /\ resolverRuns = 1

====
